---- MODULE Spec2Model ----
(***************************************************************************)
(* Model of github.com/fogfish/faults: context values (Type, Fast,         *)
(* Safe1..Safe5, ErrNotFound), the composite errors errType and            *)
(* errNotFound, their rendering and chain linkage, and the behaviour       *)
(* predicates built on errors.As.                                          *)
(*                                                                         *)
(* Strings are sequences of one-character strings, so that formatting,     *)
(* concatenation and suffixes are computed and not assumed.                *)
(***************************************************************************)
EXTENDS Integers, Sequences, FiniteSets, TLC

VARIABLES err, call, used, slice, aliased, thr, prior

vars == <<err, call, used, slice, aliased, thr, prior>>

\* the state of the callers besides the error they hold: slice is a []any
\* a caller keeps, aliased the composites whose args field is that slice,
\* thr the calls that concurrent goroutines are in, prior the error that the
\* earlier generation of the package returns to a caller built against it
caller == <<slice, aliased, thr, prior>>

(***************************************************************************)
(* Bounds                                                                  *)
(***************************************************************************)
\* deepest nesting of With calls over one cause
MaxDepth == 2
\* largest argument count passed to the variadic With of Type and Fast
MaxArgs == 2
\* goroutines that share values
NumThreads == 2

(***************************************************************************)
(* Text                                                                    *)
(***************************************************************************)
Digits == <<"0", "1", "2", "3", "4", "5", "6", "7", "8", "9">>

RECURSIVE Itoa(_)
\* decimal rendering of an integer, as the verb %d prints it
Itoa(n) ==
  IF n < 0 THEN <<"-">> \o Itoa(0 - n)
  ELSE IF n < 10 THEN <<Digits[n + 1]>>
  ELSE Itoa(n \div 10) \o <<Digits[(n % 10) + 1]>>

\* s ends with t
HasSuffix(s, t) ==
  /\ Len(t) <= Len(s)
  /\ SubSeq(s, Len(s) - Len(t) + 1, Len(s)) = t

\* s starts with t
HasPrefix(s, t) ==
  /\ Len(t) <= Len(s)
  /\ SubSeq(s, 1, Len(t)) = t

\* the separator between a context and its cause
Sep == <<":", " ">>

\* what fmt prints for a nil operand under a verb other than %v
NilBadVerb(verb) == <<"%", "!", verb, "(", "<", "n", "i", "l", ">", ")">>

NilAngle == <<"<", "n", "i", "l", ">">>

\* what fmt prints for a verb that has no operand left
MissingVerb(verb) == <<"%", "!", verb, "(", "M", "I", "S", "S", "I", "N", "G", ")">>

\* what fmt prints for a trailing lone percent sign
NoVerb == <<"%", "!", "(", "N", "O", "V", "E", "R", "B", ")">>

ExtraOpen == <<"%", "!", "(", "E", "X", "T", "R", "A", " ">>

(***************************************************************************)
(* Values                                                                  *)
(***************************************************************************)
\* the nil error
Nil == [kind |-> "nil"]

\* operands of the formatting functions
StrArg(s) == [t |-> "string", s |-> s]
IntArg(n) == [t |-> "int", n |-> n]
ErrArg(e) == [t |-> "error", e |-> e]

TypeName(a) ==
  IF a.t = "string" THEN <<"s", "t", "r", "i", "n", "g">> ELSE <<"i", "n", "t">>

\* a declared context value: a named string type and its template text.
\* variant is the Go type, tparams its type arguments (Safe1..Safe5).
Ctx(variant, tparams, text) ==
  [kind |-> "ctx", variant |-> variant, tparams |-> tparams, text |-> text]

\* an error made by fmt.Errorf or the os package: a pointer, identified by id
Ptr(id, text) == [kind |-> "ptr", id |-> id, text |-> text]

\* an error of another package that exposes one behaviour accessor
\* (Timeout, NotFound, StatusCode, PreConditionFailed, Conflict, Gone)
CapErr(cap, val, text) == [kind |-> "cap", cap |-> cap, val |-> val, text |-> text]

\* an error of another package that exposes one behaviour accessor and wraps
\* the error it was made from: struct { err error; val T }, Unwrap() error
CapWrap(cap, val, e) == [kind |-> "capwrap", cap |-> cap, val |-> val, err |-> e]

\* the composite error of errors.go
errType(about, args, hd, tl) ==
  [kind |-> "errType", about |-> about, args |-> args, hd |-> hd, tl |-> tl]

\* the composite error of common.go
errNotFound(e, key) == [kind |-> "errNotFound", err |-> e, key |-> key]

(***************************************************************************)
(* fmt.Sprintf, for the verbs %s %d %v %% and operands of type string,     *)
(* int and error.  Flags, widths and explicit operand indexes are not      *)
(* modelled: no template of the model uses them.                           *)
(***************************************************************************)
RECURSIVE Error(_)
RECURSIVE printArg(_, _)
RECURSIVE doPrintf(_, _, _, _)
RECURSIVE extraArgs(_, _)

\* fmt's rendering of one operand under one verb
printArg(a, verb) ==
  CASE a.t = "error" ->
         IF a.e = Nil
         THEN (IF verb = "v" THEN NilAngle ELSE NilBadVerb(verb))
         ELSE Error(a.e)  \* errors.go formats errors under %s only
    [] a.t = "string" ->
         IF verb \in {"s", "v"}
         THEN a.s
         ELSE <<"%", "!", verb, "(">> \o TypeName(a) \o <<"=">> \o a.s \o <<")">>
    [] a.t = "int" ->
         IF verb \in {"d", "v"}
         THEN Itoa(a.n)
         ELSE <<"%", "!", verb, "(">> \o TypeName(a) \o <<"=">> \o Itoa(a.n) \o <<")">>

\* the operands left over once the format is exhausted: "type=value, ..."
extraArgs(args, n) ==
  IF n > Len(args) THEN <<>>
  ELSE TypeName(args[n]) \o <<"=">> \o printArg(args[n], "v")
       \o (IF n < Len(args) THEN <<",", " ">> ELSE <<>>)
       \o extraArgs(args, n + 1)

\* the tail of every Sprintf: leftover operands are reported
extraTail(args, argNum) ==
  IF argNum <= Len(args)
  THEN ExtraOpen \o extraArgs(args, argNum) \o <<")">>
  ELSE <<>>

\* the scan of the format from position i with argNum the next operand
doPrintf(format, i, args, argNum) ==
  IF i > Len(format) THEN extraTail(args, argNum)
  ELSE IF format[i] # "%"
  THEN <<format[i]>> \o doPrintf(format, i + 1, args, argNum)
  ELSE IF i = Len(format) THEN NoVerb \o extraTail(args, argNum)
  ELSE LET verb == format[i + 1] IN
       IF verb = "%" THEN <<"%">> \o doPrintf(format, i + 2, args, argNum)
       ELSE IF argNum > Len(args)
       THEN MissingVerb(verb) \o doPrintf(format, i + 2, args, argNum)
       ELSE printArg(args[argNum], verb) \o doPrintf(format, i + 2, args, argNum + 1)

Sprintf(format, args) == doPrintf(format, 1, args, 1)

(***************************************************************************)
(* Rendering                                                               *)
(***************************************************************************)
\* errType.Error as it would be if the arguments were never formatted
errTypeError_IgnoresArgs(e) ==
  (IF Len(e.about) # 0 THEN e.about \o <<" ">> ELSE <<>>)
  \o Sprintf(<<"%", "s", ":", " ", "%", "s">>, <<ErrArg(e.hd), ErrArg(e.tl)>>)

\* errType.Error
errTypeError(e) ==
  LET pre == IF Len(e.about) # 0 THEN e.about \o <<" ">> ELSE <<>>
      body ==
        IF Len(e.args) # 0
        THEN LET f == Sprintf(<<"%", "s">>, <<ErrArg(e.hd)>>) IN
             Sprintf(f, e.args) \o Sprintf(<<":", " ", "%", "s">>, <<ErrArg(e.tl)>>)
        ELSE Sprintf(<<"%", "s", ":", " ", "%", "s">>, <<ErrArg(e.hd), ErrArg(e.tl)>>)
  IN pre \o body

\* the Error method of every error value of the model
Error(e) ==
  CASE e.kind = "ctx" -> e.text
    [] e.kind = "ptr" -> e.text
    [] e.kind = "cap" -> e.text
    [] e.kind = "errType" -> errTypeError(e)
    [] e.kind = "errNotFound" -> Error(e.err)
    [] e.kind = "capwrap" -> Error(e.err)
\* errType.Unwrap as it would be if only the cause were returned
errTypeUnwrap_TailOnly(e) == <<e.tl>>

\* errType.Unwrap
errTypeUnwrap(e) == <<e.hd, e.tl>>

\* errNotFound.Unwrap
errNotFoundUnwrap(e) == e.err

\* errNotFound.NotFound
errNotFoundNotFound(e) == e.key

(***************************************************************************)
(* Go equality of two error interface values, errors.Is and errors.As      *)
(***************************************************************************)
\* DynType as it would be if the type arguments of Safe1..Safe5 did not
\* make different types
DynType_IgnoresTypeArgs(e) ==
  IF e.kind = "ctx" THEN <<e.variant>>
  ELSE IF e.kind \in {"cap", "capwrap"} THEN <<e.kind, e.cap>>
  ELSE <<e.kind>>

\* the dynamic type of an error value
DynType(e) ==
  IF e.kind = "ctx" THEN <<e.variant, e.tparams>>
  ELSE IF e.kind \in {"cap", "capwrap"} THEN <<e.kind, e.cap>>
  ELSE <<e.kind>>
\* Comparable as it would be if the context values were not plain strings
Comparable_PointersOnly(e) == e.kind = "ptr"

\* reflect's Comparable of the dynamic type: errType holds a slice
Comparable(e) == e.kind # "errType"

RECURSIVE GoEq(_, _)
\* a == b on interface values: "true", "false", or "panic" when both hold
\* the same type and that type cannot be compared
GoEq(a, b) ==
  IF a = Nil \/ b = Nil THEN (IF a = b THEN "true" ELSE "false")
  ELSE IF DynType(a) # DynType(b) THEN "false"
  ELSE CASE a.kind = "ctx" -> IF a.text = b.text THEN "true" ELSE "false"
         [] a.kind = "ptr" -> IF a.id = b.id THEN "true" ELSE "false"
         [] a.kind = "cap" -> IF a = b THEN "true" ELSE "false"
         [] a.kind = "errType" -> "panic"
         [] a.kind = "errNotFound" ->
              LET r == GoEq(a.err, b.err) IN
              IF r = "true" THEN (IF a.key = b.key THEN "true" ELSE "false") ELSE r
         [] a.kind = "capwrap" ->
              LET r == GoEq(a.err, b.err) IN
              IF r = "true" THEN (IF a.val = b.val THEN "true" ELSE "false") ELSE r

RECURSIVE is(_, _, _)
RECURSIVE isAny(_, _, _, _)
\* errors.is: the walk of the tree of err looking for target
is(e, target, targetComparable) ==
  LET eq == IF targetComparable THEN GoEq(e, target) ELSE "false" IN
  IF eq # "false" THEN eq
  ELSE CASE e.kind = "errNotFound" ->
              LET u == errNotFoundUnwrap(e) IN
              IF u = Nil THEN "false" ELSE is(u, target, targetComparable)
         [] e.kind = "capwrap" ->
              IF e.err = Nil THEN "false" ELSE is(e.err, target, targetComparable)
         [] e.kind = "errType" -> isAny(errTypeUnwrap(e), 1, target, targetComparable)
         [] OTHER -> "false"

\* the loop of errors.is over the list an Unwrap() []error returns
isAny(list, i, target, targetComparable) ==
  IF i > Len(list) THEN "false"
  ELSE LET r == is(list[i], target, targetComparable) IN
       IF r # "false" THEN r ELSE isAny(list, i + 1, target, targetComparable)

\* errors.Is
Is(e, target) ==
  IF e = Nil \/ target = Nil
  THEN (IF e = target THEN "true" ELSE "false")
  ELSE is(e, target, Comparable(target))

\* the value has the accessor method of the capability
Exposes(e, cap) ==
  \/ e.kind = "errNotFound" /\ cap = "NotFound"
  \/ e.kind \in {"cap", "capwrap"} /\ e.cap = cap

\* what the accessor returns
Accessor(e) == IF e.kind = "errNotFound" THEN errNotFoundNotFound(e) ELSE e.val

NotAs == [ok |-> FALSE, e |-> Nil]

RECURSIVE as(_, _)
RECURSIVE asAny(_, _, _)
\* what e unwraps to, as a list: Unwrap() []error or the one Unwrap() error
Unwrapped(e) ==
  CASE e.kind = "errNotFound" -> <<errNotFoundUnwrap(e)>>
    [] e.kind = "capwrap" -> <<e.err>>
    [] e.kind = "errType" -> errTypeUnwrap(e)
    [] OTHER -> <<>>

\* errors.as as it would be if the deepest value with the accessor were
\* taken and not the first
as_Deepest(e, cap) ==
  LET r == asAny(Unwrapped(e), 1, cap) IN
  IF r.ok THEN r
  ELSE IF Exposes(e, cap) THEN [ok |-> TRUE, e |-> e] ELSE NotAs

\* errors.as: the first value of the tree, in pre-order, with the accessor
as(e, cap) ==
  IF Exposes(e, cap) THEN [ok |-> TRUE, e |-> e]
  ELSE asAny(Unwrapped(e), 1, cap)

\* the loop of errors.as over the list an Unwrap() []error returns: nil
\* entries are skipped
asAny(list, i, cap) ==
  IF i > Len(list) THEN NotAs
  ELSE IF list[i] = Nil THEN asAny(list, i + 1, cap)
  ELSE LET r == as(list[i], cap) IN
       IF r.ok THEN r ELSE asAny(list, i + 1, cap)

\* errors.As with a target of the interface type of the capability
As(e, cap) == IF e = Nil THEN NotAs ELSE as(e, cap)

(***************************************************************************)
(* Behaviour predicates                                                    *)
(***************************************************************************)
\* IsTimeout as it would be with a strict comparison
IsTimeout_Strict(e, deadline) ==
  LET r == As(e, "Timeout") IN r.ok /\ Accessor(r.e) > deadline

IsTimeout(e, deadline) ==
  LET r == As(e, "Timeout") IN r.ok /\ Accessor(r.e) >= deadline
\* IsNotFound as it would be if any found key counted when no key is given
IsNotFound_AnyValue(e, key) ==
  LET r == As(e, "NotFound") IN
  IF ~r.ok THEN FALSE
  ELSE IF Len(key) = 0 THEN TRUE
  ELSE \E i \in 1..Len(key) : Accessor(r.e) = key[i]

IsNotFound(e, key) ==
  LET r == As(e, "NotFound") IN
  IF ~r.ok THEN FALSE
  ELSE IF Len(key) = 0 THEN Accessor(r.e) # <<>>
  ELSE \E i \in 1..Len(key) : Accessor(r.e) = key[i]

IsStatusCode(e, code) ==
  LET r == As(e, "StatusCode") IN
  IF ~r.ok THEN FALSE
  ELSE IF Len(code) = 0 THEN Accessor(r.e) # <<>>
  ELSE \E i \in 1..Len(code) : Accessor(r.e) = code[i]

IsPreConditionFailed(e) ==
  LET r == As(e, "PreConditionFailed") IN r.ok /\ Accessor(r.e)

IsConflict(e) ==
  LET r == As(e, "Conflict") IN r.ok /\ Accessor(r.e)
\* IsGone as it would be if finding the accessor were enough
IsGone_FoundOnly(e) ==
  LET r == As(e, "Gone") IN r.ok

IsGone(e) ==
  LET r == As(e, "Gone") IN r.ok /\ Accessor(r.e)

(***************************************************************************)
(* Wrapping: the With method of every variant                              *)
(***************************************************************************)
\* the frame runtime.Caller(1) reports to With: the function that called it
Frame(fn, line) == [ok |-> TRUE, fn |-> fn, line |-> line]
\* About as it would be if the line were left out of the token
About_NameOnly(frame) ==
  Sprintf(<<"[", "%", "s", "]">>, <<StrArg(IF frame.ok THEN frame.fn ELSE <<>>)>>)

\* name and line stay at their zero values when runtime.Caller fails
About(frame) ==
  LET name == IF frame.ok THEN frame.fn ELSE <<>>
      line == IF frame.ok THEN frame.line ELSE 0
  IN Sprintf(<<"[", "%", "s", " ", "%", "d", "]">>, <<StrArg(name), IntArg(line)>>)
\* Type.With as it would be if the head were stored as a Fast value
TypeWith_HeadAsFast(e, cause, args, frame) ==
  errType(About(frame), args, Ctx("Fast", <<>>, e.text), cause)

\* Type.With
TypeWith(e, cause, args, frame) == errType(About(frame), args, e, cause)

\* Fast.With as it would be if the arguments beyond the placeholders of the
\* template were cut off
FastWith_Clamped(e, cause, args) ==
  LET p == Cardinality({i \in 1..Len(e.text) : e.text[i] = "%"}) IN
  errType(<<>>, SubSeq(args, 1, IF Len(args) < p THEN Len(args) ELSE p), e, cause)

\* Fast.With
FastWith(e, cause, args) == errType(<<>>, args, e, cause)

\* Safe1.With
Safe1With(safe, cause, a, frame) == errType(About(frame), <<a>>, safe, cause)

\* Safe2.With as it would be if the context value were not stored as head
Safe2With_NoHead(safe, cause, a, b, frame) ==
  errType(About(frame), <<a, b>>, Nil, cause)

\* Safe2.With
Safe2With(safe, cause, a, b, frame) == errType(About(frame), <<a, b>>, safe, cause)

\* Safe3.With as it would be if the first two arguments were stored swapped
Safe3With_Swapped(safe, cause, a, b, c, frame) ==
  errType(About(frame), <<b, a, c>>, safe, cause)

\* Safe3.With
Safe3With(safe, cause, a, b, c, frame) ==
  errType(About(frame), <<a, b, c>>, safe, cause)

\* Safe4.With
Safe4With(safe, cause, a, b, c, d, frame) ==
  errType(About(frame), <<a, b, c, d>>, safe, cause)

\* Safe5.With
Safe5With(safe, cause, a, b, c, d, e, frame) ==
  errType(About(frame), <<a, b, c, d, e>>, safe, cause)

\* the lines of errors.go where the deprecated New methods call With
LineTypeNew == 58
LineSafe1New == 117
LineSafe2New == 147
LineSafe3New == 177
LineSafe4New == 207
LineSafe5New == 237

\* the name of a method of the package as runtime.FuncForPC reports it:
\* "faults." receiver "." method
Method(recv, name) == <<"f", "a", "u", "l", "t", "s", ".">> \o recv \o <<".">> \o name

MethodNew == <<"N", "e", "w">>

\* Type.New: the With it calls sees New as its caller. (A build that inlines
\* New may report the name of New's caller; the line is that of errors.go in
\* every build.)
TypeNew(e, cause, args) ==
  TypeWith(e, cause, args, Frame(Method(<<"T", "y", "p", "e">>, MethodNew), LineTypeNew))

\* Fast.New
FastNew(e, cause, args) == FastWith(e, cause, args)

\* Safe1.New
Safe1New(safe, cause, a) ==
  Safe1With(safe, cause, a,
            Frame(Method(<<"S", "a", "f", "e", "1", "[", ".", ".", ".", "]">>, MethodNew),
                  LineSafe1New))

\* Safe2.New
Safe2New(safe, cause, a, b) ==
  Safe2With(safe, cause, a, b,
            Frame(Method(<<"S", "a", "f", "e", "2", "[", ".", ".", ".", "]">>, MethodNew),
                  LineSafe2New))

\* Safe3.New
Safe3New(safe, cause, a, b, c) ==
  Safe3With(safe, cause, a, b, c,
            Frame(Method(<<"S", "a", "f", "e", "3", "[", ".", ".", ".", "]">>, MethodNew),
                  LineSafe3New))

\* Safe4.New
Safe4New(safe, cause, a, b, c, d) ==
  Safe4With(safe, cause, a, b, c, d,
            Frame(Method(<<"S", "a", "f", "e", "4", "[", ".", ".", ".", "]">>, MethodNew),
                  LineSafe4New))

\* Safe5.New
Safe5New(safe, cause, a, b, c, d, e) ==
  Safe5With(safe, cause, a, b, c, d, e,
            Frame(Method(<<"S", "a", "f", "e", "5", "[", ".", ".", ".", "]">>, MethodNew),
                  LineSafe5New))

\* the line of common.go where ErrNotFound.With calls Safe1.With
LineErrNotFoundWith == 25

\* the frame of ErrNotFound.With, the caller that its Safe1.With sees
FrameErrNotFoundWith ==
  Frame(<<"f", "a", "u", "l", "t", "s", ".", "E", "r", "r", "N", "o", "t",
          "F", "o", "u", "n", "d", ".", "W", "i", "t", "h">>,
        LineErrNotFoundWith)

\* the conversion Safe1[string](e) of an ErrNotFound kind
AsSafe1String(e) == Ctx("Safe1", <<"string">>, e.text)
\* ErrNotFound.With as it would be if the key were not stored
ErrNotFoundWith_KeyDropped(e, cause, key) ==
  errNotFound(Safe1With(AsSafe1String(e), cause, StrArg(key), FrameErrNotFoundWith), <<>>)

\* ErrNotFound.With
ErrNotFoundWith(e, cause, key) ==
  errNotFound(Safe1With(AsSafe1String(e), cause, StrArg(key), FrameErrNotFoundWith), key)

(***************************************************************************)
(* The application: its declared context values, the failures it wraps     *)
(* and the places it wraps them at                                         *)
(***************************************************************************)
TextA == <<"a">>
TextB == <<"b", " ", "%", "s">>
TextN == <<"n", " ", "%", "d">>
TextK == <<"k", " ", "%", "s">>
TextC == <<"c", " ", "%", "s", " ", "%", "s">>

RECURSIVE Placeholders(_)
\* n times " %s"
Placeholders(n) ==
  IF n = 0 THEN <<>> ELSE <<" ", "%", "s">> \o Placeholders(n - 1)

\* the template "a %s ... %s" with n placeholders, as errors_test.go declares
TextSafe(n) == <<"a">> \o Placeholders(n)

RECURSIVE StringTypes(_)
StringTypes(n) == IF n = 0 THEN <<>> ELSE <<"string">> \o StringTypes(n - 1)

TypeCtxs == {Ctx("Type", <<>>, TextA), Ctx("Type", <<>>, TextB)}
FastCtxs == {Ctx("Fast", <<>>, TextA), Ctx("Fast", <<>>, TextC)}
Safe1Ctxs == {Ctx("Safe1", <<"string">>, TextSafe(1)), Ctx("Safe1", <<"int">>, TextN)}
SafeCtx(n) == Ctx(<<"Safe1", "Safe2", "Safe3", "Safe4", "Safe5">>[n], StringTypes(n), TextSafe(n))
ErrNotFoundCtxs == {Ctx("ErrNotFound", <<"string">>, TextK)}

\* every declared context value of the variants Type, Fast, Safe1..Safe5
ContextValues ==
  TypeCtxs \cup FastCtxs \cup Safe1Ctxs \cup {SafeCtx(n) : n \in 2..5}

Letters == <<"x", "y", "z", "u", "v", "w", "p", "q">>

\* the argument values the application passes: the i-th is the i-th letter
ArgVal(i) == StrArg(<<Letters[i]>>)

\* an argument list of n values
ArgList(n) == [i \in 1..n |-> ArgVal(i)]

\* the argument counts the application passes to the variadic With of e:
\* none, fewer than, as many as and one more than the template has
\* placeholders
ArgCounts(e) ==
  {n \in 0..MaxArgs : n <= Cardinality({i \in 1..Len(e.text) : e.text[i] = "%"}) + 1}

\* the one argument of a Safe1 context, of its declared type
Safe1Arg(safe) == IF safe.tparams = <<"int">> THEN IntArg(10) ELSE ArgVal(1)

\* the keys passed to ErrNotFound.With
Keys == {<<>>, <<"k">>, <<"j">>}

TextE == <<"e", "r", "r">>

\* failures made with fmt.Errorf: two pointers with the same text
PtrCauses == {Ptr(1, TextE), Ptr(2, TextE)}

\* failures of other packages that expose a behaviour
CapCauses ==
  {CapErr("Timeout", 5, TextE)}
  \cup {CapErr("NotFound", k, TextE) : k \in {<<>>, <<"j">>}}
  \cup {CapErr("StatusCode", k, TextE) : k \in {<<>>, <<"4">>}}
  \cup {CapErr(c, b, TextE) : c \in {"PreConditionFailed", "Conflict", "Gone"}, b \in BOOLEAN}

\* a declared context value returned as it is
BareCauses == ContextValues \cup ErrNotFoundCtxs

Causes == PtrCauses \cup CapCauses \cup BareCauses

\* the functions of the application that call With and the line of the call:
\* as in examples/main.go every level of wrapping has its own function
CallSites ==
  <<Frame(<<"m", ".", "f">>, 27), Frame(<<"m", ".", "g">>, 35),
    Frame(<<"m", ".", "h">>, 43)>>

NoFrame == [ok |-> FALSE, fn |-> <<>>, line |-> 0]

RECURSIVE Depth(_)
\* how many With calls built the value
Depth(e) ==
  CASE e.kind = "errType" -> 1 + Depth(e.tl)
    [] e.kind = "errNotFound" -> Depth(e.err)
    [] e.kind = "capwrap" -> 1 + Depth(e.err)
    [] OTHER -> 0

\* the function that wraps an error built by d calls so far
CallSite(d) == CallSites[(d % Len(CallSites)) + 1]

(***************************************************************************)
(* State machine: err is the error the application holds (nil at first),   *)
(* call the operation that produced it together with its inputs, used the  *)
(* values that went into err: the cause and the receivers of With          *)
(***************************************************************************)
Call(fn, recv, cause, args, frame) ==
  [fn |-> fn, recv |-> recv, cause |-> cause, args |-> args, frame |-> frame]

\* the goroutines of the application
Threads == 1..NumThreads

\* a goroutine that is in no call
Idle == [op |-> "none", pc |-> 0, seen |-> Nil, res |-> Nil]

Init ==
  /\ err = Nil
  /\ call = Call("init", Nil, Nil, <<>>, NoFrame)
  /\ used = {}
  /\ slice = <<>>
  /\ aliased = {}
  /\ thr = [t \in Threads |-> Idle]
  /\ prior = Nil

\* a callee fails: the application receives the cause
Fail(e) ==
  /\ call.fn = "init"
  /\ err' = e
  /\ call' = Call("fail", Nil, Nil, <<>>, NoFrame)
  /\ used' = {e}
  /\ UNCHANGED caller

CallTypeWith(e, n) ==
  /\ Depth(err) < MaxDepth
  /\ err' = TypeWith(e, err, ArgList(n), CallSite(Depth(err)))
  /\ call' = Call("Type.With", e, err, ArgList(n), CallSite(Depth(err)))
  /\ used' = used \cup {e}
  /\ UNCHANGED caller

CallFastWith(e, n) ==
  /\ Depth(err) < MaxDepth
  /\ err' = FastWith(e, err, ArgList(n))
  /\ call' = Call("Fast.With", e, err, ArgList(n), CallSite(Depth(err)))
  /\ used' = used \cup {e}
  /\ UNCHANGED caller

CallSafe1With(e) ==
  /\ Depth(err) < MaxDepth
  /\ err' = Safe1With(e, err, Safe1Arg(e), CallSite(Depth(err)))
  /\ call' = Call("Safe1.With", e, err, <<Safe1Arg(e)>>, CallSite(Depth(err)))
  /\ used' = used \cup {e}
  /\ UNCHANGED caller

CallSafe2With ==
  /\ Depth(err) < MaxDepth
  /\ err' = Safe2With(SafeCtx(2), err, ArgVal(1), ArgVal(2), CallSite(Depth(err)))
  /\ call' = Call("Safe2.With", SafeCtx(2), err, ArgList(2), CallSite(Depth(err)))
  /\ used' = used \cup {SafeCtx(2)}
  /\ UNCHANGED caller

CallSafe3With ==
  /\ Depth(err) < MaxDepth
  /\ err' = Safe3With(SafeCtx(3), err, ArgVal(1), ArgVal(2), ArgVal(3), CallSite(Depth(err)))
  /\ call' = Call("Safe3.With", SafeCtx(3), err, ArgList(3), CallSite(Depth(err)))
  /\ used' = used \cup {SafeCtx(3)}
  /\ UNCHANGED caller

CallSafe4With ==
  /\ Depth(err) < MaxDepth
  /\ err' = Safe4With(SafeCtx(4), err, ArgVal(1), ArgVal(2), ArgVal(3), ArgVal(4), CallSite(Depth(err)))
  /\ call' = Call("Safe4.With", SafeCtx(4), err, ArgList(4), CallSite(Depth(err)))
  /\ used' = used \cup {SafeCtx(4)}
  /\ UNCHANGED caller

CallSafe5With ==
  /\ Depth(err) < MaxDepth
  /\ err' = Safe5With(SafeCtx(5), err, ArgVal(1), ArgVal(2), ArgVal(3), ArgVal(4),
                      ArgVal(5), CallSite(Depth(err)))
  /\ call' = Call("Safe5.With", SafeCtx(5), err, ArgList(5), CallSite(Depth(err)))
  /\ used' = used \cup {SafeCtx(5)}
  /\ UNCHANGED caller

CallErrNotFoundWith(e, key) ==
  /\ Depth(err) < MaxDepth
  /\ err' = ErrNotFoundWith(e, err, key)
  /\ call' = Call("ErrNotFound.With", e, err, <<StrArg(key)>>, CallSite(Depth(err)))
  /\ used' = used \cup {e}
  /\ UNCHANGED caller

\* as many arguments as the template of e has placeholders
FittingArgs(e) == ArgList(Cardinality({i \in 1..Len(e.text) : e.text[i] = "%"}))

\* the deprecated New methods, called as examples/main.go calls them: with
\* the arguments that the template asks for
CallTypeNew(e) ==
  /\ Depth(err) < MaxDepth
  /\ err' = TypeNew(e, err, FittingArgs(e))
  /\ call' = Call("Type.New", e, err, FittingArgs(e), CallSite(Depth(err)))
  /\ used' = used \cup {e}
  /\ UNCHANGED caller

CallFastNew(e) ==
  /\ Depth(err) < MaxDepth
  /\ err' = FastNew(e, err, FittingArgs(e))
  /\ call' = Call("Fast.New", e, err, FittingArgs(e), CallSite(Depth(err)))
  /\ used' = used \cup {e}
  /\ UNCHANGED caller

CallSafe1New(e) ==
  /\ Depth(err) < MaxDepth
  /\ err' = Safe1New(e, err, Safe1Arg(e))
  /\ call' = Call("Safe1.New", e, err, <<Safe1Arg(e)>>, CallSite(Depth(err)))
  /\ used' = used \cup {e}
  /\ UNCHANGED caller

CallSafe2New ==
  /\ Depth(err) < MaxDepth
  /\ err' = Safe2New(SafeCtx(2), err, ArgVal(1), ArgVal(2))
  /\ call' = Call("Safe2.New", SafeCtx(2), err, ArgList(2), CallSite(Depth(err)))
  /\ used' = used \cup {SafeCtx(2)}
  /\ UNCHANGED caller

CallSafe3New ==
  /\ Depth(err) < MaxDepth
  /\ err' = Safe3New(SafeCtx(3), err, ArgVal(1), ArgVal(2), ArgVal(3))
  /\ call' = Call("Safe3.New", SafeCtx(3), err, ArgList(3), CallSite(Depth(err)))
  /\ used' = used \cup {SafeCtx(3)}
  /\ UNCHANGED caller

CallSafe4New ==
  /\ Depth(err) < MaxDepth
  /\ err' = Safe4New(SafeCtx(4), err, ArgVal(1), ArgVal(2), ArgVal(3), ArgVal(4))
  /\ call' = Call("Safe4.New", SafeCtx(4), err, ArgList(4), CallSite(Depth(err)))
  /\ used' = used \cup {SafeCtx(4)}
  /\ UNCHANGED caller

CallSafe5New ==
  /\ Depth(err) < MaxDepth
  /\ err' = Safe5New(SafeCtx(5), err, ArgVal(1), ArgVal(2), ArgVal(3), ArgVal(4), ArgVal(5))
  /\ call' = Call("Safe5.New", SafeCtx(5), err, ArgList(5), CallSite(Depth(err)))
  /\ used' = used \cup {SafeCtx(5)}
  /\ UNCHANGED caller

\* a layer of the application that is not built on this library overrides
\* the Gone mark of the error it got: it wraps it in its own error type
CallForeignWrap(gone) ==
  /\ Depth(err) < MaxDepth
  /\ As(err, "Gone").ok
  /\ err' = CapWrap("Gone", gone, err)
  /\ call' = Call("wrap", Nil, err, <<>>, NoFrame)
  /\ UNCHANGED used
  /\ UNCHANGED caller

Next ==
  \/ \E e \in Causes : Fail(e)
  \/ \E e \in TypeCtxs : \E n \in ArgCounts(e) : CallTypeWith(e, n)
  \/ \E e \in FastCtxs : \E n \in ArgCounts(e) : CallFastWith(e, n)
  \/ \E e \in Safe1Ctxs : CallSafe1With(e)
  \/ CallSafe2With
  \/ CallSafe3With
  \/ CallSafe4With
  \/ CallSafe5With
  \/ \E e \in ErrNotFoundCtxs, key \in Keys : CallErrNotFoundWith(e, key)
  \/ \E gone \in BOOLEAN : CallForeignWrap(gone)

Spec == Init /\ [][Next]_vars

\* an application that still calls the deprecated New methods as well
NextDeprecated ==
  \/ Next
  \/ \E e \in TypeCtxs : CallTypeNew(e)
  \/ \E e \in FastCtxs : CallFastNew(e)
  \/ \E e \in Safe1Ctxs : CallSafe1New(e)
  \/ CallSafe2New
  \/ CallSafe3New
  \/ CallSafe4New
  \/ CallSafe5New

SpecDeprecated == Init /\ [][NextDeprecated]_vars

(***************************************************************************)
(* A caller that keeps the []any it passes: Type.With and Fast.With store  *)
(* the variadic parameter as it is, and With(err, s...) passes s itself,   *)
(* so the args field of the composite and s share their elements           *)
(***************************************************************************)
\* the caller makes s := []any{...}
MakeSlice(n) ==
  /\ slice = <<>>
  /\ slice' = ArgList(n)
  /\ UNCHANGED <<err, call, used, aliased, thr, prior>>

\* errX.With(err, s...) on a Type value
CallTypeWithSlice(e) ==
  /\ slice # <<>>
  /\ Depth(err) < MaxDepth
  /\ err' = TypeWith(e, err, slice, CallSite(Depth(err)))
  /\ call' = Call("Type.With", e, err, slice, CallSite(Depth(err)))
  /\ used' = used \cup {e}
  /\ aliased' = aliased \cup {Depth(err) + 1}
  /\ UNCHANGED <<slice, thr, prior>>

\* errX.With(err, s...) on a Fast value
CallFastWithSlice(e) ==
  /\ slice # <<>>
  /\ Depth(err) < MaxDepth
  /\ err' = FastWith(e, err, slice)
  /\ call' = Call("Fast.With", e, err, slice, CallSite(Depth(err)))
  /\ used' = used \cup {e}
  /\ aliased' = aliased \cup {Depth(err) + 1}
  /\ UNCHANGED <<slice, thr, prior>>

RECURSIVE Rewritten(_, _, _)
\* the error e once the shared elements hold s: the composites whose args
\* field is the caller's slice (those made by the With calls numbered in
\* levels, counted from the cause) read the new elements
Rewritten(e, levels, s) ==
  CASE e.kind = "errType" ->
         errType(e.about, IF Depth(e) \in levels THEN s ELSE e.args, e.hd,
                 Rewritten(e.tl, levels, s))
    [] e.kind = "errNotFound" -> errNotFound(Rewritten(e.err, levels, s), e.key)
    [] e.kind = "capwrap" -> CapWrap(e.cap, e.val, Rewritten(e.err, levels, s))
    [] OTHER -> e

\* the caller assigns s[i] = v
AssignSlice(i, v) ==
  /\ i \in 1..Len(slice)
  /\ slice' = [slice EXCEPT ![i] = v]
  /\ err' = Rewritten(err, aliased, slice')
  /\ call' = Call("assign", Nil, Nil, <<>>, NoFrame)
  /\ UNCHANGED <<used, aliased, thr, prior>>

NextSlice ==
  \/ Next
  \/ \E n \in 1..MaxArgs : MakeSlice(n)
  \/ \E e \in TypeCtxs : CallTypeWithSlice(e)
  \/ \E e \in FastCtxs : CallFastWithSlice(e)
  \/ \E i \in 1..MaxArgs : AssignSlice(i, ArgVal(6))

SpecSlice == Init /\ [][NextSlice]_vars

(***************************************************************************)
(* Goroutines: a composite built by one With call is shared, and every     *)
(* goroutine calls With, Error, errors.Is or IsNotFound on it, one load of *)
(* a shared field at a time                                                *)
(***************************************************************************)
\* the causes under the shared composite
SharedCauses ==
  {Ptr(1, TextE), CapErr("NotFound", <<"j">>, TextE),
   ErrNotFoundWith(Ctx("ErrNotFound", <<"string">>, TextK), Nil, <<"k">>)}

\* the context values the shared composite is built from
SharedCtxs == {Ctx("Type", <<>>, TextB), Ctx("Fast", <<>>, TextC)}

\* the composite that the call recorded in c returned
Built(c) ==
  IF c.fn = "Type.With" THEN TypeWith(c.recv, c.cause, c.args, c.frame)
  ELSE FastWith(c.recv, c.cause, c.args)

InitThreads ==
  \E e \in SharedCtxs, c \in SharedCauses :
    /\ slice = ArgList(1)
    /\ call = Call(IF e.variant = "Type" THEN "Type.With" ELSE "Fast.With",
                   e, c, slice, CallSite(Depth(c)))
    /\ err = Built(call)
    /\ used = {c, e}
    /\ aliased = {Depth(err)}
    /\ thr = [t \in Threads |-> Idle]
    /\ prior = Nil

\* the calls a goroutine makes
Ops == {"With", "Error", "Is", "IsNotFound"}

\* the fields of the shared composite that a call loads, in the order of
\* the code: Error reads about, args, hd and tl; Unwrap reads hd and tl;
\* With stores the interface value and loads no field
Loads(op) ==
  CASE op = "Error" -> <<"about", "args", "hd", "tl">>
    [] op \in {"Is", "IsNotFound"} -> <<"hd", "tl">>
    [] OTHER -> <<>>

\* the fields a call has not loaded yet
Unread == errType(<<>>, <<>>, Nil, Nil)

\* the call of goroutine t has returned
Returned(t) ==
  /\ thr[t].op # "none"
  /\ thr[t].pc = Len(Loads(thr[t].op)) + 2

\* Stored as it would be if Error() emptied the arguments it formatted
Stored_ErrorConsumesArgs(op, e) ==
  IF op = "Error" THEN [e EXCEPT !.args = <<>>] ELSE e

\* the shared composite after a call of op on it returned: every method
\* has a value receiver and assigns no field
Stored(op, e) == e

\* what the call of goroutine t returns on the composite e
Result(op, t, e, x, s) ==
  CASE op = "With" -> Built(Call(call.fn, call.recv, x, s, CallSite(t)))
    [] op = "Error" -> Error(e)
    [] op = "Is" -> Is(e, call.recv)
    [] op = "IsNotFound" -> IsNotFound(e, <<>>)

\* goroutine t enters a call
Begin(t, op) ==
  /\ thr[t].op = "none"
  /\ thr' = [thr EXCEPT ![t] = [op |-> op, pc |-> 1, seen |-> Unread, res |-> Nil]]
  /\ UNCHANGED <<err, call, used, slice, aliased, prior>>

\* goroutine t loads the next field of the shared composite
Load(t) ==
  /\ thr[t].op # "none"
  /\ thr[t].pc <= Len(Loads(thr[t].op))
  /\ LET f == Loads(thr[t].op)[thr[t].pc] IN
     thr' = [thr EXCEPT ![t].seen =
               CASE f = "about" -> [@ EXCEPT !.about = err.about]
                 [] f = "args" -> [@ EXCEPT !.args = err.args]
                 [] f = "hd" -> [@ EXCEPT !.hd = err.hd]
                 [] f = "tl" -> [@ EXCEPT !.tl = err.tl],
             ![t].pc = @ + 1]
  /\ UNCHANGED <<err, call, used, slice, aliased, prior>>

\* the call of goroutine t returns
Return(t) ==
  /\ thr[t].op # "none"
  /\ thr[t].pc = Len(Loads(thr[t].op)) + 1
  /\ thr' = [thr EXCEPT ![t].res = Result(thr[t].op, t, thr[t].seen, err, slice),
                        ![t].pc = @ + 1]
  /\ err' = Stored(thr[t].op, err)
  /\ UNCHANGED <<call, used, slice, aliased, prior>>

NextThreads ==
  \E t \in Threads :
    \/ \E op \in Ops : Begin(t, op)
    \/ Load(t)
    \/ Return(t)

SpecThreads == InitThreads /\ [][NextThreads]_vars

(***************************************************************************)
(* The earlier generation of the package: With formats the message with    *)
(* fmt.Sprintf and hands the result to fmt.Errorf as a part of its format, *)
(* with the cause under the verb %w                                        *)
(***************************************************************************)
\* what fmt.Errorf returns: the formatted message and the operand that the
\* verb %w wrapped (nil when %w met no error operand)
wrapError(msg, e) == [kind |-> "wrapError", msg |-> msg, err |-> e]

\* wrapError.Error
wrapErrorError(e) == e.msg

\* reflect's name of the type of an operand: the failures that reach the
\* earlier With are made by fmt.Errorf without %w, as in the tests
ErrorfTypeName(a) ==
  IF a.t = "error" THEN <<"*", "e", "r", "r", "o", "r", "s", ".", "e", "r", "r", "o", "r", "S", "t", "r", "i", "n", "g">> ELSE TypeName(a)

\* fmt's rendering of one operand of Errorf under one verb: %w prints an
\* error as %v does and is a bad verb for every other operand; a verb that
\* is not a string verb prints the struct behind the pointer, field by field
errorfArg(a, verb) ==
  IF a.t = "error"
  THEN IF verb \in {"s", "v", "w"}
       THEN Error(a.e)
       ELSE <<"&", "{", "%", "!", verb, "(">> \o <<"s", "t", "r", "i", "n", "g", "=">> \o a.e.text \o <<")", "}">>
  ELSE printArg(a, verb)

RECURSIVE errorfExtra(_, _)
\* the operands left over once the format is exhausted
errorfExtra(args, n) ==
  IF n > Len(args) THEN <<>>
  ELSE ErrorfTypeName(args[n]) \o <<"=">> \o errorfArg(args[n], "v")
       \o (IF n < Len(args) THEN <<",", " ">> ELSE <<>>)
       \o errorfExtra(args, n + 1)

RECURSIVE doErrorf(_, _, _, _)
\* the scan of the format of Errorf from position i
doErrorf(format, i, args, argNum) ==
  IF i > Len(format)
  THEN (IF argNum <= Len(args)
        THEN ExtraOpen \o errorfExtra(args, argNum) \o <<")">>
        ELSE <<>>)
  ELSE IF format[i] # "%"
  THEN <<format[i]>> \o doErrorf(format, i + 1, args, argNum)
  ELSE IF i = Len(format)
  THEN NoVerb \o (IF argNum <= Len(args)
                  THEN ExtraOpen \o errorfExtra(args, argNum) \o <<")">>
                  ELSE <<>>)
  ELSE LET verb == format[i + 1] IN
       IF verb = "%" THEN <<"%">> \o doErrorf(format, i + 2, args, argNum)
       ELSE IF argNum > Len(args)
       THEN MissingVerb(verb) \o doErrorf(format, i + 2, args, argNum)
       ELSE errorfArg(args[argNum], verb) \o doErrorf(format, i + 2, args, argNum + 1)

RECURSIVE wrappedErr(_, _, _, _)
\* the error operand that the first %w of the format meets, nil if none
wrappedErr(format, i, args, argNum) ==
  IF i >= Len(format) THEN Nil
  ELSE IF format[i] # "%" THEN wrappedErr(format, i + 1, args, argNum)
  ELSE LET verb == format[i + 1] IN
       IF verb = "%" THEN wrappedErr(format, i + 2, args, argNum)
       ELSE IF argNum > Len(args) THEN Nil
       ELSE IF verb = "w" /\ args[argNum].t = "error" THEN args[argNum].e
       ELSE wrappedErr(format, i + 2, args, argNum + 1)

\* fmt.Errorf
Errorf(format, args) ==
  wrapError(doErrorf(format, 1, args, 1), wrappedErr(format, 1, args, 1))

\* the operands name and line of the earlier With: zero values when
\* runtime.Caller fails
Location(frame) ==
  <<StrArg(IF frame.ok THEN frame.fn ELSE <<>>),
    IntArg(IF frame.ok THEN frame.line ELSE 0)>>

LocFormat == <<"[", "%", "s", " ", "%", "d", "]", " ">>

WrapFormat == <<":", " ", "%", "w">>

\* Type.With of the earlier generation
TypeWithErrorf(e, cause, args, frame) ==
  LET msg == IF Len(args) > 0 THEN Sprintf(e.text, args) ELSE e.text IN
  Errorf(LocFormat \o msg \o WrapFormat, Location(frame) \o <<ErrArg(cause)>>)

\* Fast.With of the earlier generation
FastWithErrorf(e, cause, args) ==
  LET msg == IF Len(args) > 0 THEN Sprintf(e.text, args) ELSE e.text IN
  Errorf(msg \o WrapFormat, <<ErrArg(cause)>>)

\* Safe1.With .. Safe5.With of the earlier generation: the template is a
\* part of the format, the arguments its operands before the cause
SafeWithErrorf(safe, cause, args, frame) ==
  Errorf(LocFormat \o safe.text \o WrapFormat,
         Location(frame) \o args \o <<ErrArg(cause)>>)

Safe1WithErrorf(safe, cause, a, frame) == SafeWithErrorf(safe, cause, <<a>>, frame)

Safe2WithErrorf(safe, cause, a, b, frame) ==
  SafeWithErrorf(safe, cause, <<a, b>>, frame)

Safe3WithErrorf(safe, cause, a, b, c, frame) ==
  SafeWithErrorf(safe, cause, <<a, b, c>>, frame)

Safe4WithErrorf(safe, cause, a, b, c, d, frame) ==
  SafeWithErrorf(safe, cause, <<a, b, c, d>>, frame)

Safe5WithErrorf(safe, cause, a, b, c, d, e, frame) ==
  SafeWithErrorf(safe, cause, <<a, b, c, d, e>>, frame)


(***************************************************************************)
(* An application built against both generations: it hands the failure it  *)
(* received, the same context value and the same arguments to the With of  *)
(* each, from the same place                                               *)
(***************************************************************************)
\* an argument value that holds a formatting directive
Directive == StrArg(<<"%", "s">>)

\* the string values the application passes as arguments
ArgValues == {ArgVal(1), ArgVal(2), Directive}

\* the argument lists passed to the variadic With
ArgLists == UNION {[1..n -> ArgValues] : n \in 0..MaxArgs}

\* the Safe1 context values: those of the tests and one whose template has
\* no placeholder for its argument
Safe1Templates == Safe1Ctxs \cup {Ctx("Safe1", <<"string">>, TextA)}

\* the values a Safe1 context takes as its argument, of its declared type
Safe1Args(safe) == IF safe.tparams = <<"int">> THEN {IntArg(10)} ELSE ArgValues

BothTypeWith(e, args) ==
  /\ call.fn = "fail"
  /\ err' = TypeWith(e, err, args, CallSite(0))
  /\ prior' = TypeWithErrorf(e, err, args, CallSite(0))
  /\ call' = Call("Type.With", e, err, args, CallSite(0))
  /\ used' = used \cup {e}
  /\ UNCHANGED <<slice, aliased, thr>>

BothFastWith(e, args) ==
  /\ call.fn = "fail"
  /\ err' = FastWith(e, err, args)
  /\ prior' = FastWithErrorf(e, err, args)
  /\ call' = Call("Fast.With", e, err, args, CallSite(0))
  /\ used' = used \cup {e}
  /\ UNCHANGED <<slice, aliased, thr>>

BothSafe1With(e, a) ==
  /\ call.fn = "fail"
  /\ err' = Safe1With(e, err, a, CallSite(0))
  /\ prior' = Safe1WithErrorf(e, err, a, CallSite(0))
  /\ call' = Call("Safe1.With", e, err, <<a>>, CallSite(0))
  /\ used' = used \cup {e}
  /\ UNCHANGED <<slice, aliased, thr>>

BothSafe2With(a, b) ==
  /\ call.fn = "fail"
  /\ err' = Safe2With(SafeCtx(2), err, a, b, CallSite(0))
  /\ prior' = Safe2WithErrorf(SafeCtx(2), err, a, b, CallSite(0))
  /\ call' = Call("Safe2.With", SafeCtx(2), err, <<a, b>>, CallSite(0))
  /\ used' = used \cup {SafeCtx(2)}
  /\ UNCHANGED <<slice, aliased, thr>>

BothSafe3With ==
  /\ call.fn = "fail"
  /\ err' = Safe3With(SafeCtx(3), err, ArgVal(1), ArgVal(2), ArgVal(3), CallSite(0))
  /\ prior' = Safe3WithErrorf(SafeCtx(3), err, ArgVal(1), ArgVal(2), ArgVal(3), CallSite(0))
  /\ call' = Call("Safe3.With", SafeCtx(3), err, ArgList(3), CallSite(0))
  /\ used' = used \cup {SafeCtx(3)}
  /\ UNCHANGED <<slice, aliased, thr>>

BothSafe4With ==
  /\ call.fn = "fail"
  /\ err' = Safe4With(SafeCtx(4), err, ArgVal(1), ArgVal(2), ArgVal(3), ArgVal(4), CallSite(0))
  /\ prior' = Safe4WithErrorf(SafeCtx(4), err, ArgVal(1), ArgVal(2), ArgVal(3), ArgVal(4),
                              CallSite(0))
  /\ call' = Call("Safe4.With", SafeCtx(4), err, ArgList(4), CallSite(0))
  /\ used' = used \cup {SafeCtx(4)}
  /\ UNCHANGED <<slice, aliased, thr>>

BothSafe5With ==
  /\ call.fn = "fail"
  /\ err' = Safe5With(SafeCtx(5), err, ArgVal(1), ArgVal(2), ArgVal(3), ArgVal(4),
                      ArgVal(5), CallSite(0))
  /\ prior' = Safe5WithErrorf(SafeCtx(5), err, ArgVal(1), ArgVal(2), ArgVal(3), ArgVal(4),
                              ArgVal(5), CallSite(0))
  /\ call' = Call("Safe5.With", SafeCtx(5), err, ArgList(5), CallSite(0))
  /\ used' = used \cup {SafeCtx(5)}
  /\ UNCHANGED <<slice, aliased, thr>>

NextGenerations ==
  \/ \E e \in PtrCauses : Fail(e)
  \/ \E e \in TypeCtxs, args \in ArgLists : BothTypeWith(e, args)
  \/ \E e \in FastCtxs, args \in ArgLists : BothFastWith(e, args)
  \/ \E e \in Safe1Templates : \E a \in Safe1Args(e) : BothSafe1With(e, a)
  \/ \E a \in ArgValues, b \in ArgValues : BothSafe2With(a, b)
  \/ BothSafe3With
  \/ BothSafe4With
  \/ BothSafe5With

SpecGenerations == Init /\ [][NextGenerations]_vars


(***************************************************************************)
(* Vocabulary of the properties                                            *)
(***************************************************************************)
\* the With methods of the context values proper
CtxWithNames ==
  {"Type.With", "Fast.With", "Safe1.With", "Safe2.With", "Safe3.With",
   "Safe4.With", "Safe5.With"}

\* the With methods that look up their caller
CaptureWithNames == CtxWithNames \ {"Fast.With"}

\* the location token of a frame, written out: "[" function " " line "]"
LocToken(frame) == <<"[">> \o frame.fn \o <<" ">> \o Itoa(frame.line) \o <<"]">>

\* the text of an argument value
ArgText(a) == IF a.t = "string" THEN a.s ELSE Itoa(a.n)

RECURSIVE Subst(_, _, _, _)
\* positional substitution: the n-th placeholder of text, scanned from
\* position i, becomes the text of the n-th argument; a placeholder without
\* an argument stays as it is
Subst(text, i, args, n) ==
  IF i > Len(text) THEN <<>>
  ELSE IF text[i] = "%" /\ i < Len(text) /\ n <= Len(args)
  THEN ArgText(args[n]) \o Subst(text, i + 2, args, n + 1)
  ELSE <<text[i]>> \o Subst(text, i + 1, args, n)

\* the number of placeholders of a template
NumPlaceholders(text) == Cardinality({i \in 1..Len(text) : text[i] = "%"})

\* the template formatted with the arguments of a call
Formatted(text, args) == IF Len(args) = 0 THEN text ELSE Sprintf(text, args)

RECURSIVE HasKind(_, _)
\* some node of the tree of e is of the kind
HasKind(e, kind) ==
  \/ e.kind = kind
  \/ e.kind = "errType" /\ (HasKind(e.hd, kind) \/ HasKind(e.tl, kind))
  \/ e.kind \in {"errNotFound", "capwrap"} /\ HasKind(e.err, kind)

RECURSIVE Nodes(_)
\* the nodes of the tree of e in pre-order: e, its head subtree, its tail
\* subtree, without the nil entries
Nodes(e) ==
  CASE e.kind = "nil" -> <<>>
    [] e.kind = "errType" -> <<e>> \o Nodes(e.hd) \o Nodes(e.tl)
    [] e.kind \in {"errNotFound", "capwrap"} -> <<e>> \o Nodes(e.err)
    [] OTHER -> <<e>>

\* the nodes that expose the capability, in pre-order
Exposing(e, cap) == SelectSeq(Nodes(e), LAMBDA x : Exposes(x, cap))

\* the capability is exposed somewhere in the tree
Found(e, cap) == Len(Exposing(e, cap)) > 0

\* the value of the first exposing node
FoundValue(e, cap) == Accessor(Head(Exposing(e, cap)))

\* the declarations of the test files, by name: errA of TestType is declared
\* in both generations of the tests with the same text, errA of TestFast
\* has that text too
Declarations ==
  {[name |-> "TestType.errA", ctx |-> Ctx("Type", <<>>, TextA)],
   [name |-> "TestType.errA (earlier tests)", ctx |-> Ctx("Type", <<>>, TextA)],
   [name |-> "TestFast.errA", ctx |-> Ctx("Fast", <<>>, TextA)],
   [name |-> "TestType.errB", ctx |-> Ctx("Type", <<>>, TextB)],
   [name |-> "TestFast.errB", ctx |-> Ctx("Fast", <<>>, TextB)],
   [name |-> "TestSafe.errA", ctx |-> Ctx("Safe1", <<"string">>, TextSafe(1))],
   [name |-> "TestSafe.errB", ctx |-> SafeCtx(2)]}

\* same Go type and same text
SameValue(a, b) ==
  /\ a.kind = "ctx" /\ b.kind = "ctx"
  /\ a.variant = b.variant /\ a.tparams = b.tparams /\ a.text = b.text

\* candidate keys and codes handed to the predicates
KeyLists == {<<>>, <<<<"k">>>>, <<<<"j">>>>, <<<<>>>>, <<<<"o">>, <<"k">>>>, <<<<"4">>>>}

\* deadlines handed to IsTimeout
Deadlines == {4, 5, 6}

(***************************************************************************)
(* Properties                                                              *)
(***************************************************************************)
\* the location prefix a rendering is expected to start with
ExpectedPrefix ==
  IF call.fn \in CaptureWithNames THEN LocToken(call.frame) \o <<" ">> ELSE <<>>

\* C1: the error returned by With over a present cause renders as the
\* location token and a space (capturing variants only), the template with
\* the arguments formatted into it, ": ", and the rendering of the cause;
\* the cause's rendering is a suffix; with as many arguments as placeholders
\* the formatted template is the positional substitution.
C1_RenderWithCause ==
  (call.fn \in CtxWithNames /\ call.cause # Nil) =>
    /\ Error(err) = ExpectedPrefix \o Formatted(call.recv.text, call.args)
                      \o Sep \o Error(call.cause)
    /\ HasSuffix(Error(err), Sep \o Error(call.cause))
    /\ (NumPlaceholders(call.recv.text) = Len(call.args) =>
          Formatted(call.recv.text, call.args) = Subst(call.recv.text, 1, call.args, 1))

\* C1 witness: an outer context with an argument wraps an inner composite
\* that wraps a failure
C1_Witness ==
  /\ call.fn = "Type.With"
  /\ Len(call.args) = 1
  /\ call.cause.kind = "errType"
  /\ call.cause.tl \in PtrCauses
  /\ Error(err) = LocToken(call.frame) \o <<" ", "b", " ", "x">> \o Sep \o Error(call.cause)

\* C2: with an absent cause the rendering is the location token (if any) and
\* the formatted template, with no ": <cause>" suffix
C2_RenderAbsentCause ==
  (call.fn \in CtxWithNames \cup {"ErrNotFound.With"} /\ call.cause = Nil) =>
    Error(err) = (IF call.fn = "ErrNotFound.With"
                  THEN LocToken(FrameErrNotFoundWith) \o <<" ">>
                  ELSE ExpectedPrefix)
                 \o Formatted(call.recv.text, call.args)

\* C3: an error built by With calls of Type, Fast and Safe1..Safe5 matches
\* every context value used at any level and its terminal cause
C3_MatchCompleteness ==
  ~HasKind(err, "errNotFound") =>
    \A t \in used : Is(err, t) = "true"

\* C3 witness: two levels over a failure, all three of them matched
C3_Witness ==
  /\ Depth(err) = 2
  /\ ~HasKind(err, "errNotFound")
  /\ Cardinality(used) = 3
  /\ \E t \in used : t \in PtrCauses /\ Is(err, t) = "true"
  /\ \E t \in used : t \in TypeCtxs /\ Is(err, t) = "true"
  /\ \E t \in used : t.kind = "ctx" /\ t.variant = "Safe2" /\ Is(err, t) = "true"

\* C4 as stated: two separate declarations with the same template text never
\* cross-match
C4_DeclarationsDistinct ==
  (call.fn \in CtxWithNames /\ call.cause # Nil /\ Depth(call.cause) = 0) =>
    \A d1, d2 \in Declarations :
      (/\ d1.name # d2.name
       /\ d1.ctx.text = d2.ctx.text
       /\ call.recv = d1.ctx
       /\ call.cause # d2.ctx) => Is(err, d2.ctx) # "true"

\* C4 amended: A.With(E) matches a declared B exactly when B has the Go type
\* and the text of A (or is the cause E itself); declarations that differ in
\* variant or text do not cross-match, declarations equal in both do
C4_ValueIdentity ==
  (call.fn \in CtxWithNames /\ Depth(call.cause) = 0) =>
    \A d \in Declarations :
      /\ SameValue(d.ctx, call.recv) => Is(err, d.ctx) = "true"
      /\ (~SameValue(d.ctx, call.recv) /\ d.ctx # call.cause) => Is(err, d.ctx) = "false"

\* C4 witness: Type("a").With(E) matched against the second declaration of
\* Type("a") and against Fast("a")
C4_Witness ==
  /\ call.fn = "Type.With"
  /\ call.recv = Ctx("Type", <<>>, TextA)
  /\ call.cause \in PtrCauses
  /\ Is(err, Ctx("Type", <<>>, TextA)) = "true"
  /\ Is(err, Ctx("Fast", <<>>, TextA)) = "false"

\* C5: a declared context value that was never combined matches itself
C5_BareReflexive ==
  (call.fn = "fail" /\ err \in ContextValues) => Is(err, err) = "true"

\* C5 witness: a bare Safe5 value is the error at hand
C5_Witness ==
  /\ call.fn = "fail"
  /\ err = SafeCtx(5)
  /\ Is(err, err) = "true"

\* the first node of the tree that exposes NotFound is an errNotFound
Materialized(e) ==
  /\ Found(e, "NotFound")
  /\ Head(Exposing(e, "NotFound")).kind = "errNotFound"

\* C6, the states: a declared kind that was not combined is not NotFound;
\* the result of kind.With(cause, key) with a non-empty key is NotFound and
\* its accessor returns the key passed
C6_States ==
  /\ (call.fn = "fail" /\ err \in ErrNotFoundCtxs) => ~IsNotFound(err, <<>>)
  /\ (call.fn = "ErrNotFound.With" /\ call.args[1].s # <<>>) =>
        /\ IsNotFound(err, <<>>)
        /\ err.kind = "errNotFound"
        /\ errNotFoundNotFound(err) = call.args[1].s

\* C6, the steps: a materialized NotFound at the front of the chain comes
\* from ErrNotFound.With alone, and wrapping an error that is NotFound in a
\* context value of Type, Fast or Safe1..Safe5 keeps it NotFound
C6_Steps ==
  /\ (~Materialized(err) /\ Materialized(err')) => call'.fn = "ErrNotFound.With"
  /\ (IsNotFound(err, <<>>) /\ call'.fn \in CtxWithNames) => IsNotFound(err', <<>>)

\* C6: the NotFound lifecycle, Declared --With--> Materialized
C6_Lifecycle == [](C6_States) /\ [][C6_Steps]_vars

\* C6 witness: a materialized NotFound made without a cause was wrapped
\* again and is still NotFound, its key intact
C6_Witness ==
  /\ call.fn = "Safe2.With"
  /\ call.cause.kind = "errNotFound"
  /\ call.cause.err.tl = Nil
  /\ errNotFoundNotFound(call.cause) = <<"k">>
  /\ IsNotFound(err, <<>>)

\* the reading of the table of the string-valued capabilities
StringCapExpected(e, cap, candidates) ==
  /\ Found(e, cap)
  /\ \/ Len(candidates) = 0 /\ FoundValue(e, cap) # <<>>
     \/ Len(candidates) > 0
        /\ \E i \in 1..Len(candidates) : FoundValue(e, cap) = candidates[i]

\* C7: IsNotFound and IsStatusCode are true exactly when the capability is
\* found and its value is non-empty (no candidates) or among the candidates
C7_StringCapabilities ==
  \A c \in KeyLists :
    /\ IsNotFound(err, c) <=> StringCapExpected(err, "NotFound", c)
    /\ IsStatusCode(err, c) <=> StringCapExpected(err, "StatusCode", c)

\* C7 witness: a NotFound with key "k" over a failure whose status code is
\* empty: true with no key and for "k", false for "j"; the empty code is
\* false with no candidate and true for the candidate ""
C7_Witness ==
  /\ call.fn = "ErrNotFound.With"
  /\ call.args[1].s = <<"k">>
  /\ call.cause = CapErr("StatusCode", <<>>, TextE)
  /\ IsNotFound(err, <<>>)
  /\ IsNotFound(err, <<<<"k">>>>)
  /\ ~IsNotFound(err, <<<<"j">>>>)
  /\ ~IsStatusCode(err, <<>>)
  /\ IsStatusCode(err, <<<<>>>>)

BoolCaps == {"PreConditionFailed", "Conflict", "Gone"}

AllCaps == BoolCaps \cup {"Timeout", "NotFound", "StatusCode"}

\* C8: the boolean predicates are true exactly when the capability is found
\* and its accessor returns true; without any capability in the chain all six
\* predicates are false
C8_BooleanCapabilities ==
  /\ IsPreConditionFailed(err) <=>
       (Found(err, "PreConditionFailed") /\ FoundValue(err, "PreConditionFailed"))
  /\ IsConflict(err) <=> (Found(err, "Conflict") /\ FoundValue(err, "Conflict"))
  /\ IsGone(err) <=> (Found(err, "Gone") /\ FoundValue(err, "Gone"))
  /\ (\A cap \in AllCaps : ~Found(err, cap)) =>
       /\ ~IsPreConditionFailed(err) /\ ~IsConflict(err) /\ ~IsGone(err)
       /\ \A c \in KeyLists : ~IsNotFound(err, c) /\ ~IsStatusCode(err, c)
       /\ \A d \in Deadlines : ~IsTimeout(err, d)

\* C8 witness: a conflict wrapped twice in context values is a conflict and
\* answers false to the predicates of the capabilities it does not expose
C8_Witness ==
  /\ Depth(err) = 2
  /\ err.kind = "errType"
  /\ err.tl.kind = "errType"
  /\ err.tl.tl = CapErr("Conflict", TRUE, TextE)
  /\ IsConflict(err)
  /\ ~IsGone(err) /\ ~IsPreConditionFailed(err)
  /\ ~IsNotFound(err, <<>>) /\ ~IsStatusCode(err, <<>>) /\ ~IsTimeout(err, 4)

\* C9: IsTimeout is true exactly when Timeout is found and the duration is
\* at least the deadline
C9_Timeout ==
  \A d \in Deadlines :
    IsTimeout(err, d) <=> (Found(err, "Timeout") /\ FoundValue(err, "Timeout") >= d)

\* C9 witness: a wrapped timeout of 5 against the deadlines 4, 5 and 6
C9_Witness ==
  /\ err.kind = "errType"
  /\ err.tl = CapErr("Timeout", 5, TextE)
  /\ IsTimeout(err, 4) /\ IsTimeout(err, 5) /\ ~IsTimeout(err, 6)

\* C10: With of Type and Safe1..Safe5 records "[function line]" of the
\* function that called it and the rendering starts with that token and a
\* space; With of Fast records no location and its rendering starts with
\* the template
C10_CallerCapture ==
  /\ call.fn \in CaptureWithNames =>
       /\ err.about = LocToken(call.frame)
       /\ HasPrefix(Error(err), LocToken(call.frame) \o <<" ">>)
  /\ call.fn = "Fast.With" =>
       /\ err.about = <<>>
       /\ ~HasPrefix(Error(err), <<"[">>)
       /\ HasPrefix(Error(err), Formatted(call.recv.text, call.args))

\* C10 witness: a capturing With called from m.g at line 35 over the result
\* of a Fast.With, which recorded nothing
C10_Witness ==
  /\ call.fn = "Safe3.With"
  /\ call.frame = Frame(<<"m", ".", "g">>, 35)
  /\ HasPrefix(Error(err), <<"[", "m", ".", "g", " ", "3", "5", "]", " ", "a">>)
  /\ call.cause.kind = "errType"
  /\ call.cause.hd \in FastCtxs
  /\ call.cause.about = <<>>

\* the With methods of Safe1..Safe5, by the number of arguments they take
SafeWithNames ==
  <<"Safe1.With", "Safe2.With", "Safe3.With", "Safe4.With", "Safe5.With">>

\* C11: With of SafeN (N = 1..5) stores exactly the N arguments of the call
\* in their declared order, and the rendering has, after the location token,
\* the template with the i-th argument in place of the i-th placeholder,
\* none dropped, duplicated or reordered.
C11_SafeArity ==
  \A n \in 1..5 :
    call.fn = SafeWithNames[n] =>
      /\ Len(call.args) = n
      /\ NumPlaceholders(call.recv.text) = n
      /\ err.args = call.args
      /\ \A i \in 1..n : err.args[i] = call.args[i]
      /\ HasPrefix(Error(err),
                   LocToken(call.frame) \o <<" ">>
                     \o Subst(call.recv.text, 1, call.args, 1) \o Sep)

\* C11 witness: Safe5.With with five different arguments renders them in
\* the order given
C11_Witness ==
  /\ call.fn = "Safe5.With"
  /\ err.args = <<ArgVal(1), ArgVal(2), ArgVal(3), ArgVal(4), ArgVal(5)>>
  /\ HasPrefix(Error(err),
               LocToken(call.frame)
                 \o <<" ", "a", " ", "x", " ", "y", " ", "z", " ", "u", " ", "v", ":">>)

RECURSIVE SubstOrMissing(_, _, _, _)
\* positional substitution where a placeholder without an argument is
\* reported in place: "%!s(MISSING)"
SubstOrMissing(text, i, args, n) ==
  IF i > Len(text) THEN <<>>
  ELSE IF text[i] = "%" /\ i < Len(text)
  THEN (IF n <= Len(args) THEN ArgText(args[n])
        ELSE <<"%", "!", text[i + 1], "(", "M", "I", "S", "S", "I", "N", "G", ")">>)
       \o SubstOrMissing(text, i + 2, args, n + 1)
  ELSE <<text[i]>> \o SubstOrMissing(text, i + 1, args, n)

RECURSIVE ExtraList(_, _)
\* the string arguments from the n-th on, each as "string=value", separated
\* by ", "
ExtraList(args, n) ==
  IF n > Len(args) THEN <<>>
  ELSE <<"s", "t", "r", "i", "n", "g", "=">> \o ArgText(args[n])
       \o (IF n < Len(args) THEN <<",", " ">> ELSE <<>>) \o ExtraList(args, n + 1)

\* the report of the arguments beyond the placeholders: "%!(EXTRA ...)"
ExtraNote(text, args) ==
  IF Len(args) > NumPlaceholders(text)
  THEN <<"%", "!", "(", "E", "X", "T", "R", "A", " ">>
       \o ExtraList(args, NumPlaceholders(text) + 1) \o <<")">>
  ELSE <<>>

\* what a template and any number of arguments degrade to: without arguments
\* the literal template, else the substitution with the missing and the
\* extra arguments reported
Degraded(text, args) ==
  IF Len(args) = 0 THEN text
  ELSE SubstOrMissing(text, 1, args, 1) \o ExtraNote(text, args)

\* C12: With of Type and Fast takes any number of arguments and returns a
\* composite, and Error() returns a string for fewer, as many, more or no
\* arguments than placeholders: the literal template, or the substitution
\* with every missing and every extra argument reported in the text.
C12_RenderTotal ==
  call.fn \in {"Type.With", "Fast.With"} =>
    /\ err.kind = "errType"
    /\ err.args = call.args
    /\ HasPrefix(Error(err),
                 ExpectedPrefix \o Degraded(call.recv.text, call.args) \o Sep)

\* C12 witness: one argument against two placeholders, over a composite
\* that got two arguments against one placeholder
C12_Witness ==
  /\ call.fn = "Fast.With"
  /\ call.recv.text = TextC /\ Len(call.args) = 1
  /\ call.cause.kind = "errType"
  /\ call.cause.hd = Ctx("Type", <<>>, TextB) /\ Len(call.cause.args) = 2
  /\ HasPrefix(Error(err),
               <<"c", " ", "x", " ", "%", "!", "s", "(", "M", "I", "S", "S", "I", "N", "G", ")",
                 ":", " ", "[">>)
  /\ HasSuffix(Error(call.cause),
               <<"b", " ", "x", "%", "!", "(", "E", "X", "T", "R", "A", " ",
                 "s", "t", "r", "i", "n", "g", "=", "y", ")", ":", " ", "e", "r", "r">>)

\* C13: the result of K.With(cause, key) for a NotFound kind K matches K
\* itself under errors.Is, and matches the cause when there is one.
C13_NotFoundKindMatches ==
  call.fn = "ErrNotFound.With" =>
    /\ Is(err, call.recv) = "true"
    /\ (call.cause # Nil /\ Depth(call.cause) = 0) => Is(err, call.cause) = "true"

\* what the call of goroutine t returns when it runs alone on the composite
\* as it was shared
Alone(op, t) == Result(op, t, Built(call), Built(call), call.args)

\* C14: under every interleaving of the goroutines' With, Error, errors.Is
\* and IsNotFound calls on the shared context value and composite, each
\* call returns what it returns when run alone, and no step changes the
\* shared composite or the shared argument slice.
C14_Isolation ==
  /\ [](\A t \in Threads :
          Returned(t) => thr[t].res = Alone(thr[t].op, t))
  /\ [][err' = err /\ slice' = slice]_vars

\* C14 witness: one goroutine is in the middle of Error() while another has
\* returned from With on the same composite
C14_Witness ==
  /\ thr[1].op = "Error" /\ thr[1].pc = 3
  /\ thr[2].op = "With" /\ Returned(2)
  /\ thr[2].res.kind = "errType" /\ thr[2].res.tl = err

\* keys handed to IsNotFound one at a time
SingleKeys == {<<"k">>, <<"j">>, <<>>}

\* C15: every predicate decides on the first node, in pre-order, that
\* exposes its capability and on no other: errors.As returns that node; with
\* two NotFound nodes in the chain IsNotFound is true for a key exactly when
\* the outer node has it, whatever the inner one has; with two Gone nodes
\* IsGone is what the outer one returns, whatever the inner one returns.
C15_FirstNodeDecides ==
  /\ \A cap \in AllCaps :
       /\ As(err, cap).ok <=> Found(err, cap)
       /\ Found(err, cap) => As(err, cap).e = Head(Exposing(err, cap))
  /\ Len(Exposing(err, "NotFound")) >= 2 =>
       \A k \in SingleKeys :
         IsNotFound(err, <<k>>) <=> (Accessor(Exposing(err, "NotFound")[1]) = k)
  /\ Len(Exposing(err, "Gone")) >= 2 =>
       (IsGone(err) <=> Accessor(Exposing(err, "Gone")[1]))

\* C15 witness: an outer NotFound with key "k" over an inner NotFound with
\* key "j" is NotFound for "k" and not for "j"
C15_Witness ==
  /\ err.kind = "errNotFound" /\ errNotFoundNotFound(err) = <<"k">>
  /\ err.err.tl.kind = "errNotFound" /\ errNotFoundNotFound(err.err.tl) = <<"j">>
  /\ IsNotFound(err, <<<<"k">>>>)
  /\ ~IsNotFound(err, <<<<"j">>>>)

\* the entry points that call With inside the library
LibraryEntryNames ==
  {"Type.New", "Safe1.New", "Safe2.New", "Safe3.New", "Safe4.New", "Safe5.New",
   "ErrNotFound.With"}

\* the composite that recorded the location of the last call
Recorder == IF err.kind = "errNotFound" THEN err.err ELSE err

\* C16: a composite made through New of Type or Safe1..Safe5 or through
\* ErrNotFound.With records the function and line of the application code
\* that called that entry point, as a direct With there would.
C16_EntryPointCaller ==
  call.fn \in LibraryEntryNames =>
    /\ Recorder.about = LocToken(call.frame)
    /\ HasPrefix(Error(err), LocToken(call.frame) \o <<" ">>)

\* a composite error of the library
IsComposite(e) == e.kind \in {"errType", "errNotFound"}

\* the error f is e itself or was made by wrapping e, with e inside as it was
Kept(e, f) ==
  \/ f = e
  \/ f.kind = "errType" /\ f.tl = e
  \/ f.kind = "errNotFound" /\ f.err.tl = e
  \/ f.kind = "capwrap" /\ f.err = e

\* C17: a composite is the same after every later step of its holder, a
\* further With call or an assignment to an element of a slice that was
\* passed variadically to Type.With or Fast.With: location, arguments, head,
\* tail, rendering and matches stay; With stores its receiver and its cause
\* as they are.
C17_Immutable ==
  [][/\ IsComposite(err) =>
          /\ Kept(err, err')
          /\ IsComposite(err') => HasSuffix(Error(err'), Error(err))
     /\ (call'.fn \in CtxWithNames /\ call' # call) =>
          (err'.hd = call'.recv /\ err'.tl = err /\ call'.cause = err)]_vars

\* C18: every composite returned by With, of any variant, with or without
\* arguments and cause, matches itself under errors.Is.
C18_CompositeReflexive ==
  IsComposite(err) => Is(err, err) = "true"

\* the targets handed to errors.Is: every declared context value, context
\* values that are declared nowhere but share the variant or the text of a
\* declared one, and failures
Targets ==
  ContextValues \cup ErrNotFoundCtxs \cup PtrCauses
  \cup {CapErr("Gone", b, TextE) : b \in BOOLEAN}
  \cup {Ctx("Safe1", <<"int">>, TextSafe(1)), Ctx("Safe1", <<"string">>, TextK),
        Ctx("Fast", <<>>, TextB), Ctx("Type", <<>>, TextC),
        Ctx("Safe2", <<"string", "int">>, TextSafe(2))}

\* the value t is a node of the tree of e
Reachable(e, t) == \E i \in 1..Len(Nodes(e)) : Nodes(e)[i] = t

\* C19: errors.Is(X, T) is true only if T is a node of X: a context value
\* of the same variant type and text as a head, or the terminal cause
\* itself; a target that differs from every node in variant, type
\* arguments or text never matches, neither does a composite.
C19_MatchSoundness ==
  err # Nil =>
    /\ \A t \in Targets : Is(err, t) = "true" => Reachable(err, t)
    /\ Is(err, call.cause) = "true" => Reachable(err, call.cause)
    /\ Is(err, err) = "true" => Reachable(err, err)

\* C19 witness: Safe1[string]("a %s") over Type("a") over a failure matches
\* both and the failure, and neither Fast("a") nor Safe1[int]("a %s") nor
\* the other failure of the same text
C19_Witness ==
  /\ call.fn = "Safe1.With" /\ call.recv = Ctx("Safe1", <<"string">>, TextSafe(1))
  /\ call.cause.kind = "errType" /\ call.cause.hd = Ctx("Type", <<>>, TextA)
  /\ call.cause.tl = Ptr(1, TextE)
  /\ Is(err, Ctx("Type", <<>>, TextA)) = "true"
  /\ Is(err, call.recv) = "true"
  /\ Is(err, Ptr(1, TextE)) = "true"
  /\ Is(err, Ptr(2, TextE)) = "false"
  /\ Is(err, Ctx("Fast", <<>>, TextA)) = "false"
  /\ Is(err, Ctx("Safe1", <<"int">>, TextSafe(1))) = "false"

\* the composites of errors.go among the nodes of e
Composites(e) == SelectSeq(Nodes(e), LAMBDA x : x.kind = "errType")

C21_GenerationsAgree ==
  (prior # Nil /\ call.cause # Nil) => wrapErrorError(prior) = Error(err)
====
